---- MODULE Spec2Model ----
(***************************************************************************)
(* Model of the BLE advertising module of cloudpico's csensor firmware     *)
(* (src/csensor/ble_advertise.c): the telemetry encoder                    *)
(* (build_manufacturer_data, build_adv_data) and the advertisement         *)
(* lifecycle (ble_advertise_init / _update / _deinit / _is_ready and the   *)
(* BTstack packet_handler), together with the part of the radio stack the  *)
(* module drives through hci_* and gap_* calls.                            *)
(***************************************************************************)
EXTENDS Integers, Sequences, FiniteSets, TLC

VARIABLES
    ble_initialized,   \* static bool ble_initialized
    device_id,         \* static uint32_t device_id
    reading_id,        \* static uint32_t reading_id
    adv_data,          \* static uint8_t adv_data[31], as a sequence of 31 bytes
    adv_data_len,      \* static uint8_t adv_data_len
    adv_cursor,        \* p - adv_data at the end of the last build_adv_data (0: none yet)
    adv_error,         \* the "Advertisement data too long" branch was taken
    handler_registered,\* hci_add_event_handler(&hci_event_callback_registration) done
    cyw43_inited,      \* cyw43_arch_init() done and not undone by cyw43_arch_deinit()
    hci_power,         \* last hci_power_control request: "NONE", "ON" or "OFF"
    hci_state,         \* state of the HCI stack: "OFF", "INITIALIZING", "WORKING"
    gap_params_set,    \* gap_advertisements_set_params() has been called
    gap_adv_data,      \* bytes last given to gap_advertisements_set_data (<<>>: none)
    gap_adv_enabled,   \* gap_advertisements_enable(1) in effect
    lastOp,            \* the operation that ran last
    lastArg,           \* its argument
    lastRet,           \* its return value
    lastCalls,         \* the radio calls it made, in order
    ready_since_start, \* the HCI_STATE_WORKING event was handled since the last start() that ran
    stop_since_start,  \* stop() was called since the last start() that ran
    latest_reading,    \* the reading of the last advertisement built (0.0f thrice by the handler)
    installed_ids,     \* reading ids handed to the radio since the last start() that ran
    updates_since_start, \* updates that returned 0 since the last start() that ran
    count_base,        \* reading_id where that count began
    restarted,         \* the last start() that ran found the radio powered off by stop()
    pc,                \* main(): "boot", "poll", "wait", "check" or "halted"
    timer_due,         \* main(): time_reached(next_sensor_read) at the last wake-up
    tick_sensor_ok,    \* main(): the last bme280_get_sensor_data returned BME280_OK
    tick_calls,        \* main(): the ble_advertise_* calls of the last sensor tick
    handled_since_wait \* main(): events handled since the last wait returned

ctrl_vars  == <<ble_initialized, device_id, reading_id, adv_data, adv_data_len,
                adv_cursor, adv_error>>
radio_vars == <<handler_registered, cyw43_inited, hci_power, hci_state,
                gap_params_set, gap_adv_data, gap_adv_enabled>>
obs_vars   == <<lastOp, lastArg, lastRet, lastCalls>>
hist_vars  == <<ready_since_start, stop_since_start, latest_reading, installed_ids,
               updates_since_start, count_base, restarted>>
main_vars  == <<pc, timer_due, tick_sensor_ok, tick_calls, handled_since_wait>>
vars       == <<ctrl_vars, radio_vars, obs_vars, hist_vars, main_vars>>

----------------------------------------------------------------------------
(* Machine integers *)

(* A uint32_t is kept as its two 16-bit halves, value = hi * 2^16 + lo. *)
WORD_MOD  == 65536            \* 2^16
UINT8_MOD == 256              \* 2^8
U32(h, l) == [hi |-> h, lo |-> l]
U32Values == [hi : 0..(WORD_MOD - 1), lo : 0..(WORD_MOD - 1)]
U32_ZERO  == U32(0, 0)
U32_MAX   == U32(WORD_MOD - 1, WORD_MOD - 1)

\* (uint8_t)((x >> (8*k)) & 0xFF) of an int constant
int_byte(x, k) == (x \div (UINT8_MOD ^ k)) % UINT8_MOD

\* (uint8_t)((x >> (8*k)) & 0xFF) of a uint32_t, k = 0..3
u32_byte_big_endian(x, k) ==
    IF k < 2 THEN int_byte(x.hi, 1 - k) ELSE int_byte(x.lo, 3 - k)
u32_byte(x, k) ==
    IF k < 2 THEN int_byte(x.lo, k) ELSE int_byte(x.hi, k - 2)

(* A float is kept as its IEEE-754 single precision fields. *)
Float(s, e, f) == [sign |-> s, exponent |-> e, fraction |-> f]

\* *(uint32_t*)&temp : the object representation of the float, bit 31 the
\* sign, bits 30..23 the exponent, bits 22..0 the fraction.  The cast reads a
\* float object through a uint32_t lvalue; the firmware's compiler reads the
\* bytes of the parameter it has just stored, which is what is modelled.
float_bits(f) ==
    U32(f.sign * 32768 + f.exponent * 128 + (f.fraction \div WORD_MOD),
        f.fraction % WORD_MOD)

----------------------------------------------------------------------------
(* Program constants *)

BLE_COMPANY_ID == 65535       \* 0xFFFF
BLE_MAGIC_0 == 1              \* 0x01
BLE_MAGIC_1 == 208            \* 0xD0
BLUETOOTH_DATA_TYPE_FLAGS == 1
BLUETOOTH_DATA_TYPE_MANUFACTURER_SPECIFIC_DATA == 255
ADV_DATA_SIZE == 31           \* sizeof adv_data, and the BLE limit

F_ZERO == Float(0, 0, 0)      \* 0.0f

----------------------------------------------------------------------------
(* Telemetry encoder *)

u32_le(x) == <<u32_byte(x, 0), u32_byte(x, 1), u32_byte(x, 2), u32_byte(x, 3)>>

\* the 22 bytes build_manufacturer_data writes through p, in order
build_manufacturer_data_swapped(dev_id, read_id, temp, pressure, humidity) ==
    <<BLE_MAGIC_0, BLE_MAGIC_1>>
        \o u32_le(read_id)
        \o u32_le(dev_id)
        \o u32_le(float_bits(temp))
        \o u32_le(float_bits(pressure))
        \o u32_le(float_bits(humidity))
build_manufacturer_data(dev_id, read_id, temp, pressure, humidity) ==
    <<BLE_MAGIC_0, BLE_MAGIC_1>>
        \o u32_le(dev_id)
        \o u32_le(read_id)
        \o u32_le(float_bits(temp))
        \o u32_le(float_bits(pressure))
        \o u32_le(float_bits(humidity))

\* the bytes build_adv_data writes through p, in order, starting at adv_data[0]
adv_data_written_with_name(dev_id, read_id, temp, pressure, humidity) ==
    <<2, BLUETOOTH_DATA_TYPE_FLAGS, 6>>
        \o <<3, 9, 80, 105>>
        \o <<25, BLUETOOTH_DATA_TYPE_MANUFACTURER_SPECIFIC_DATA>>
        \o <<int_byte(BLE_COMPANY_ID, 0), int_byte(BLE_COMPANY_ID, 1)>>
        \o build_manufacturer_data(dev_id, read_id, temp, pressure, humidity)
adv_data_written(dev_id, read_id, temp, pressure, humidity) ==
    <<2, BLUETOOTH_DATA_TYPE_FLAGS, 6>>
        \o <<25, BLUETOOTH_DATA_TYPE_MANUFACTURER_SPECIFIC_DATA>>
        \o <<int_byte(BLE_COMPANY_ID, 0), int_byte(BLE_COMPANY_ID, 1)>>
        \o build_manufacturer_data(dev_id, read_id, temp, pressure, humidity)

\* build_adv_data: the static buffer, its length, the final cursor and the error branch.
\* A write past adv_data[30] falls outside the buffer and is not kept in it.
build_adv_data_humidity_unwritten(buf, dev_id, read_id, temp, pressure, humidity) ==
    LET w   == adv_data_written(dev_id, read_id, temp, pressure, humidity)
        len == Len(w) % UINT8_MOD
    IN  [ data   |-> [i \in 1..ADV_DATA_SIZE |-> IF i <= Len(w) - 4 THEN w[i] ELSE buf[i]],
          cursor |-> Len(w),
          len    |-> IF len > ADV_DATA_SIZE THEN ADV_DATA_SIZE ELSE len,
          error  |-> len > ADV_DATA_SIZE ]
build_adv_data(buf, dev_id, read_id, temp, pressure, humidity) ==
    LET w   == adv_data_written(dev_id, read_id, temp, pressure, humidity)
        len == Len(w) % UINT8_MOD
    IN  [ data   |-> [i \in 1..ADV_DATA_SIZE |-> IF i <= Len(w) THEN w[i] ELSE buf[i]],
          cursor |-> Len(w),
          len    |-> IF len > ADV_DATA_SIZE THEN ADV_DATA_SIZE ELSE len,
          error  |-> len > ADV_DATA_SIZE ]

\* the (adv_data_len, adv_data) pair handed to gap_advertisements_set_data
adv_payload_stale(data, len) == gap_adv_data
adv_payload(data, len) == SubSeq(data, 1, len)

----------------------------------------------------------------------------
(* Inputs *)

MaxUpdates == 3               \* updates allowed past each starting point of reading_id

\* device identifiers passed to ble_advertise_init: 0xDEADBEEF, 0x01020304
DeviceIds == {U32(57005, 48879), U32(258, 772)}

\* sensor_data_t values: 21.50/101.30/45.00, 21.55/101.28/45.10, and the
\* special values NaN, +Inf, -Inf, a subnormal and a negative number
SensorData ==
    { [temperature |-> Float(0, 131, 2883584), pressure |-> Float(0, 133, 4888986),
       humidity |-> Float(0, 132, 3407872)],
      [temperature |-> Float(0, 131, 2909798), pressure |-> Float(0, 133, 4886364),
       humidity |-> Float(0, 132, 3434086)],
      [temperature |-> Float(0, 255, 4194304), pressure |-> Float(0, 255, 0),
       humidity |-> Float(1, 255, 0)],
      [temperature |-> Float(0, 0, 1), pressure |-> Float(1, 129, 2621440),
       humidity |-> Float(1, 255, 8388607)] }

\* the argument of ble_advertise_update: NULL or a pointer to a sensor_data_t
NULL == [isnull |-> TRUE]
Ptr(d) == [isnull |-> FALSE, temperature |-> d.temperature,
           pressure |-> d.pressure, humidity |-> d.humidity]
UpdateArgs == {NULL} \cup {Ptr(d) : d \in SensorData}

\* packets BTstack hands to packet_handler
StateEvent(st) == [packet_type |-> "HCI_EVENT_PACKET", event_type |-> "BTSTACK_EVENT_STATE",
                   state |-> st]
OtherEvent     == [packet_type |-> "HCI_EVENT_PACKET", event_type |-> "HCI_EVENT_COMMAND_COMPLETE",
                   state |-> "NONE"]
AclPacket      == [packet_type |-> "HCI_ACL_DATA_PACKET", event_type |-> "NONE",
                   state |-> "NONE"]
WorkingEvent   == StateEvent("HCI_STATE_WORKING")

\* reading_id values from which up to MaxUpdates updates are explored: a fresh
\* counter, a counter about to wrap (0xFFFFFFFE), one about to carry into its
\* upper half (0x0506FFFE)
ReadingIdStarts == {U32_ZERO, U32(WORD_MOD - 1, WORD_MOD - 2), U32(1286, WORD_MOD - 2)}

\* (r - s) mod 2^32
u32_distance(r, s) ==
    IF r.lo >= s.lo
    THEN U32((r.hi - s.hi) % WORD_MOD, r.lo - s.lo)
    ELSE U32((r.hi - s.hi - 1) % WORD_MOD, r.lo - s.lo + WORD_MOD)
within_bound(r) ==
    \E s \in ReadingIdStarts :
        LET d == u32_distance(r, s) IN d.hi = 0 /\ d.lo < MaxUpdates

----------------------------------------------------------------------------
(* Initial state: the statics of ble_advertise.c, radio never touched *)

NoArg == [none |-> TRUE]

\* the reading of the first advertisement: 0.0f, 0.0f, 0.0f
ZeroReading == [temperature |-> F_ZERO, pressure |-> F_ZERO, humidity |-> F_ZERO]

Init ==
    /\ ble_initialized = FALSE
    /\ device_id = U32_ZERO
    /\ reading_id = U32_ZERO
    /\ adv_data = [i \in 1..ADV_DATA_SIZE |-> 0]
    /\ adv_data_len = 0
    /\ adv_cursor = 0
    /\ adv_error = FALSE
    /\ handler_registered = FALSE
    /\ cyw43_inited = FALSE
    /\ hci_power = "NONE"
    /\ hci_state = "OFF"
    /\ gap_params_set = FALSE
    /\ gap_adv_data = <<>>
    /\ gap_adv_enabled = FALSE
    /\ lastOp = "none"
    /\ lastArg = NoArg
    /\ lastRet = 0
    /\ lastCalls = <<>>
    /\ ready_since_start = FALSE
    /\ stop_since_start = FALSE
    /\ latest_reading = ZeroReading
    /\ installed_ids = {}
    /\ updates_since_start = 0
    /\ count_base = U32_ZERO
    /\ restarted = FALSE
    /\ pc = "boot"
    /\ timer_due = FALSE
    /\ tick_sensor_ok = FALSE
    /\ tick_calls = <<>>
    /\ handled_since_wait = 0

----------------------------------------------------------------------------
(* ble_advertise_init *)

\* if (ble_initialized) { printf("BLE: Already initialized\n"); return 0; }
init_rejected_never == FALSE
init_rejected_when_registered == ble_initialized \/ handler_registered
init_rejected == ble_initialized

\* reading_id = 0;
init_reading_id_kept == reading_id
init_reading_id == U32_ZERO

\* device_id = dev_id;
init_device_id_not_recorded(dev_id) == device_id
init_device_id(dev_id) == dev_id

\* hci_power_control(HCI_POWER_ON): an HCI stack that is off starts its
\* initialisation, unless the transport fails to open (power_ok = FALSE)
hci_after_power_on(power_ok) ==
    IF hci_state = "OFF" /\ power_ok THEN "INITIALIZING" ELSE hci_state

ble_advertise_init(dev_id, power_ok) ==
    /\ lastOp' = "init"
    /\ lastArg' = [dev_id |-> dev_id]
    /\ lastRet' = 0
    /\ IF init_rejected
       THEN /\ lastCalls' = <<>>
            /\ UNCHANGED <<ctrl_vars, radio_vars, hist_vars>>
       ELSE /\ device_id' = init_device_id(dev_id)
            /\ reading_id' = init_reading_id
            /\ cyw43_inited' = TRUE
            /\ handler_registered' = TRUE
            /\ hci_power' = "ON"
            /\ hci_state' = hci_after_power_on(power_ok)
            /\ lastCalls' = <<"cyw43_arch_init", "l2cap_init", "sm_init",
                              "hci_add_event_handler", "hci_power_control(HCI_POWER_ON)">>
            /\ ready_since_start' = FALSE
            /\ stop_since_start' = FALSE
            /\ installed_ids' = {}
            /\ updates_since_start' = 0
            /\ count_base' = U32_ZERO
            /\ restarted' = (hci_power = "OFF")
            /\ UNCHANGED latest_reading
            /\ UNCHANGED <<ble_initialized, adv_data, adv_data_len, adv_cursor, adv_error,
                           gap_params_set, gap_adv_data, gap_adv_enabled>>

----------------------------------------------------------------------------
(* ble_advertise_update *)

\* if (!ble_initialized) return -1;  if (data == NULL) return -1;
update_rejected_null_only(data) == data.isnull
update_rejected(data) == ~ble_initialized \/ data.isnull

\* reading_id++ on a uint32_t
next_reading_id_no_carry(r) == U32(r.hi, (r.lo + 1) % WORD_MOD)
next_reading_id(r) ==
    IF r.lo = WORD_MOD - 1 THEN U32((r.hi + 1) % WORD_MOD, 0) ELSE U32(r.hi, r.lo + 1)

\* return -1; on the two guards, return 0; at the end
update_result_always_ok(rejected) == 0
update_result(rejected) == IF rejected THEN -1 ELSE 0

ble_advertise_update(data) ==
    /\ lastOp' = "update"
    /\ lastArg' = data
    /\ IF update_rejected(data)
       THEN /\ lastRet' = update_result(TRUE)
            /\ lastCalls' = <<>>
            /\ UNCHANGED <<ctrl_vars, radio_vars, hist_vars>>
       ELSE LET rid == next_reading_id(reading_id)
                b   == build_adv_data(adv_data, device_id, rid, data.temperature,
                                      data.pressure, data.humidity)
            IN  /\ reading_id' = rid
                /\ adv_data' = b.data
                /\ adv_data_len' = b.len
                /\ adv_cursor' = b.cursor
                /\ adv_error' = b.error
                /\ gap_adv_data' = adv_payload(b.data, b.len)
                /\ lastRet' = update_result(FALSE)
                /\ lastCalls' = <<"gap_advertisements_set_data">>
                /\ latest_reading' = [temperature |-> data.temperature,
                                       pressure |-> data.pressure,
                                       humidity |-> data.humidity]
                /\ installed_ids' = installed_ids \cup {rid}
                /\ updates_since_start' = updates_since_start + 1
                /\ UNCHANGED <<count_base, restarted>>
                /\ UNCHANGED <<ble_initialized, device_id, handler_registered, cyw43_inited,
                               hci_power, hci_state, gap_params_set, gap_adv_enabled,
                               ready_since_start, stop_since_start>>

----------------------------------------------------------------------------
(* ble_advertise_deinit *)

\* if (!ble_initialized) return;
deinit_rejected_never == FALSE
deinit_rejected == ~ble_initialized

ble_advertise_deinit ==
    /\ lastOp' = "deinit"
    /\ lastArg' = NoArg
    /\ lastRet' = 0
    /\ stop_since_start' = TRUE
    /\ UNCHANGED <<ready_since_start, latest_reading, installed_ids,
                   updates_since_start, count_base, restarted>>
    /\ IF deinit_rejected
       THEN /\ lastCalls' = <<>>
            /\ UNCHANGED <<ctrl_vars, radio_vars>>
       ELSE /\ gap_adv_enabled' = FALSE
            /\ hci_power' = "OFF"
            /\ hci_state' = "OFF"
            /\ cyw43_inited' = FALSE
            /\ ble_initialized' = FALSE
            /\ lastCalls' = <<"gap_advertisements_enable(0)",
                              "hci_power_control(HCI_POWER_OFF)", "cyw43_arch_deinit">>
            /\ UNCHANGED <<device_id, reading_id, adv_data, adv_data_len, adv_cursor,
                           adv_error, handler_registered, gap_params_set, gap_adv_data>>

----------------------------------------------------------------------------
(* ble_advertise_is_ready *)

is_ready == ble_initialized

ble_advertise_is_ready ==
    /\ lastOp' = "is_ready"
    /\ lastArg' = NoArg
    /\ lastRet' = IF is_ready THEN 1 ELSE 0
    /\ lastCalls' = <<>>
    /\ UNCHANGED <<ctrl_vars, radio_vars, hist_vars>>

----------------------------------------------------------------------------
(* packet_handler *)

\* packet_type == HCI_EVENT_PACKET, event type BTSTACK_EVENT_STATE and
\* btstack_event_state_get_state(packet) == HCI_STATE_WORKING
handles_any_state_event(packet) ==
    /\ packet.packet_type = "HCI_EVENT_PACKET"
    /\ packet.event_type = "BTSTACK_EVENT_STATE"
handles(packet) ==
    /\ packet.packet_type = "HCI_EVENT_PACKET"
    /\ packet.event_type = "BTSTACK_EVENT_STATE"
    /\ packet.state = "HCI_STATE_WORKING"

\* the reading_id put in the first advertisement
first_reading_id_incremented(r) == next_reading_id(r)
first_reading_id(r) == r

packet_handler(packet) ==
    /\ lastOp' = "packet_handler"
    /\ lastArg' = packet
    /\ lastRet' = 0
    /\ UNCHANGED <<stop_since_start, updates_since_start, count_base, restarted>>
    /\ IF ~handles(packet)
       THEN /\ lastCalls' = <<>>
            /\ UNCHANGED <<ctrl_vars, handler_registered, cyw43_inited, hci_power,
                           gap_params_set, gap_adv_data, gap_adv_enabled,
                           ready_since_start, latest_reading, installed_ids>>
       ELSE LET b == build_adv_data(adv_data, device_id, first_reading_id(reading_id),
                                    F_ZERO, F_ZERO, F_ZERO)
            IN  /\ gap_params_set' = TRUE
                /\ adv_data' = b.data
                /\ adv_data_len' = b.len
                /\ adv_cursor' = b.cursor
                /\ adv_error' = b.error
                /\ gap_adv_data' = adv_payload(b.data, b.len)
                /\ gap_adv_enabled' = TRUE
                /\ ble_initialized' = TRUE
                /\ ready_since_start' = TRUE
                /\ latest_reading' = IF ble_initialized THEN latest_reading ELSE ZeroReading
                /\ installed_ids' = installed_ids \cup {first_reading_id(reading_id)}
                /\ lastCalls' = <<"gap_local_bd_addr", "gap_advertisements_set_params",
                                  "gap_advertisements_set_data",
                                  "gap_advertisements_enable(1)">>
                /\ UNCHANGED <<device_id, reading_id, handler_registered, cyw43_inited,
                               hci_power>>

----------------------------------------------------------------------------
(* The radio stack delivering packets to the registered handler *)

\* The HCI stack finishes its initialisation: it becomes WORKING and emits
\* BTSTACK_EVENT_STATE(HCI_STATE_WORKING) to the registered handlers.
RadioReadyEvent ==
    /\ handler_registered
    /\ hci_state = "INITIALIZING"
    /\ hci_state' = "WORKING"
    /\ packet_handler(WorkingEvent)

\* Any other packet: a state event for a state other than WORKING, another
\* HCI event, or a packet that is not an HCI event.
RadioOtherEvent ==
    /\ handler_registered
    /\ \E packet \in {StateEvent("HCI_STATE_INITIALIZING"), StateEvent("HCI_STATE_OFF"),
                      OtherEvent, AclPacket} :
          packet_handler(packet)
    /\ UNCHANGED hci_state

----------------------------------------------------------------------------
(* The program: the API called in any order, and the radio's events *)

Start  == \E d \in DeviceIds, power_ok \in BOOLEAN :
              ble_advertise_init(d, power_ok) /\ UNCHANGED main_vars
Update == \E data \in UpdateArgs :
              /\ update_rejected(data) \/ within_bound(reading_id)
              /\ ble_advertise_update(data)
              /\ UNCHANGED main_vars
Stop   == ble_advertise_deinit /\ UNCHANGED main_vars
Query  == ble_advertise_is_ready /\ UNCHANGED main_vars
RadioReady == RadioReadyEvent /\ UNCHANGED main_vars
RadioOther == RadioOtherEvent /\ UNCHANGED main_vars

Next == Start \/ Update \/ Stop \/ Query \/ RadioReady \/ RadioOther

Spec == Init /\ [][Next]_vars

\* packet_handler has no guard on ble_initialized: a further
\* BTSTACK_EVENT_STATE(HCI_STATE_WORKING) from a stack that is already
\* WORKING runs the same branch again
RadioReadyAgain ==
    /\ handler_registered
    /\ hci_state = "WORKING"
    /\ packet_handler(WorkingEvent)
    /\ UNCHANGED hci_state
    /\ UNCHANGED main_vars

NextRedeliver == Next \/ RadioReadyAgain

SpecRedeliver == Init /\ [][NextRedeliver]_vars

----------------------------------------------------------------------------
(* main(): ble_advertise_init(DEVICE_ID), then the loop                    *)
(*   async_context_poll; async_context_wait_for_work_until(next_sensor_read); *)
(*   if (time_reached(next_sensor_read)) { read sensor, update, reschedule } *)

MaxEvents == 2                \* packets handled between two waits

\* DEVICE_ID: 0x00000000 unless the build defines it (here 0xDEADBEEF)
MainDeviceIds == {U32_ZERO, U32(57005, 48879)}

\* int rc = ble_advertise_init(DEVICE_ID);
MainBoot ==
    /\ pc = "boot"
    /\ \E d \in MainDeviceIds, power_ok \in BOOLEAN : ble_advertise_init(d, power_ok)
    /\ pc' = "poll"
    /\ UNCHANGED <<timer_due, tick_sensor_ok, tick_calls, handled_since_wait>>

\* BTstack's packets reach packet_handler from async_context_poll, on the
\* thread of main()
delivers_at_any_time == TRUE
poll_delivers == pc = "poll"

MainPollReady ==
    /\ poll_delivers
    /\ handled_since_wait < MaxEvents
    /\ RadioReadyEvent
    /\ handled_since_wait' = handled_since_wait + 1
    /\ UNCHANGED <<pc, timer_due, tick_sensor_ok, tick_calls>>

MainPollOther ==
    /\ poll_delivers
    /\ handled_since_wait < MaxEvents
    /\ RadioOtherEvent
    /\ handled_since_wait' = handled_since_wait + 1
    /\ UNCHANGED <<pc, timer_due, tick_sensor_ok, tick_calls>>

\* async_context_poll returns; async_context_wait_for_work_until is entered
MainPollDone ==
    /\ pc = "poll"
    /\ pc' = "wait"
    /\ UNCHANGED <<ctrl_vars, radio_vars, obs_vars, hist_vars,
                   timer_due, tick_sensor_ok, tick_calls, handled_since_wait>>

\* the wait returns because next_sensor_read is reached
MainWakeTimer ==
    /\ pc = "wait"
    /\ pc' = "check"
    /\ timer_due' = TRUE
    /\ handled_since_wait' = 0
    /\ UNCHANGED <<ctrl_vars, radio_vars, obs_vars, hist_vars, tick_sensor_ok, tick_calls>>

\* the wait returns because the radio has work pending
MainWakeWork ==
    /\ pc = "wait"
    /\ pc' = "check"
    /\ timer_due' = FALSE
    /\ handled_since_wait' = 0
    /\ UNCHANGED <<ctrl_vars, radio_vars, obs_vars, hist_vars, tick_sensor_ok, tick_calls>>

\* if (rslt == BME280_OK) { ... if (ble_advertise_is_ready()) ble_advertise_update(...) }
tick_updates_unchecked(sensor_ok) == sensor_ok
tick_updates(sensor_ok) == sensor_ok /\ is_ready

\* next_sensor_read = make_timeout_time_ms(POLL_INTERVAL_MS); and around the loop
after_tick_halts_on_error(sensor_ok) == IF sensor_ok THEN "poll" ELSE "halted"
after_tick(sensor_ok) == "poll"

\* if (time_reached(next_sensor_read)) { ... }
MainTick ==
    /\ pc = "check"
    /\ timer_due
    /\ \E sensor_ok \in BOOLEAN, d \in SensorData :
          /\ tick_sensor_ok' = sensor_ok
          /\ pc' = after_tick(sensor_ok)
          /\ IF tick_updates(sensor_ok)
             THEN /\ update_rejected(Ptr(d)) \/ within_bound(reading_id)
                  /\ ble_advertise_update(Ptr(d))
                  /\ tick_calls' = <<"ble_advertise_is_ready", "ble_advertise_update">>
             ELSE IF sensor_ok
             THEN /\ ble_advertise_is_ready
                  /\ tick_calls' = <<"ble_advertise_is_ready">>
             ELSE /\ lastOp' = "none"
                  /\ lastArg' = NoArg
                  /\ lastRet' = 0
                  /\ lastCalls' = <<>>
                  /\ tick_calls' = <<>>
                  /\ UNCHANGED <<ctrl_vars, radio_vars, hist_vars>>
    /\ timer_due' = FALSE
    /\ handled_since_wait' = handled_since_wait + 1

\* time_reached(next_sensor_read) is false: around the loop
MainNoTick ==
    /\ pc = "check"
    /\ ~timer_due
    /\ pc' = "poll"
    /\ UNCHANGED <<ctrl_vars, radio_vars, obs_vars, hist_vars,
                   timer_due, tick_sensor_ok, tick_calls, handled_since_wait>>

NextMain ==
    \/ MainBoot \/ MainPollReady \/ MainPollOther \/ MainPollDone
    \/ MainWakeTimer \/ MainWakeWork \/ MainTick \/ MainNoTick

SpecMain == Init /\ [][NextMain]_vars

\* The loop keeps running each of its statements, and the deadline
\* next_sensor_read, a finite time ahead, is reached by some wait.
SpecMainFair ==
    /\ SpecMain
    /\ WF_vars(MainBoot)
    /\ WF_vars(MainPollDone)
    /\ SF_vars(MainWakeTimer)
    /\ WF_vars(MainTick)
    /\ WF_vars(MainNoTick)

----------------------------------------------------------------------------
(* A state deep into a run: Active, after a successful update that left    *)
(* reading_id at one of ReadingIdStarts, and an is_ready() query.          *)
(* Reaching 0xFFFFFFFE from Init takes 2^32 - 2 updates; the same actions  *)
(* are explored from there.                                                *)

InitLongRun ==
    /\ ble_initialized = TRUE
    /\ device_id \in DeviceIds
    /\ reading_id \in ReadingIdStarts \ {U32_ZERO}
    /\ latest_reading \in SensorData
    /\ installed_ids = {reading_id}
    /\ updates_since_start = 0
    /\ count_base = reading_id
    /\ restarted = FALSE
    /\ pc = "boot"
    /\ timer_due = FALSE
    /\ tick_sensor_ok = FALSE
    /\ tick_calls = <<>>
    /\ handled_since_wait = 0
    /\ LET d == latest_reading IN
         LET b == build_adv_data([i \in 1..ADV_DATA_SIZE |-> 0], device_id, reading_id,
                                 d.temperature, d.pressure, d.humidity)
         IN  /\ adv_data = b.data
             /\ adv_data_len = b.len
             /\ adv_cursor = b.cursor
             /\ adv_error = b.error
             /\ gap_adv_data = adv_payload(b.data, b.len)
    /\ handler_registered = TRUE
    /\ cyw43_inited = TRUE
    /\ hci_power = "ON"
    /\ hci_state = "WORKING"
    /\ gap_params_set = TRUE
    /\ gap_adv_enabled = TRUE
    /\ lastOp = "is_ready"
    /\ lastArg = NoArg
    /\ lastRet = 1
    /\ lastCalls = <<>>
    /\ ready_since_start = TRUE
    /\ stop_since_start = FALSE

SpecLongRun == InitLongRun /\ [][Next]_vars

----------------------------------------------------------------------------
(* The lifecycle states of the controller, read off the program's state *)

Uninitialized == ~ble_initialized /\ hci_power = "NONE"   \* no start() has run
Starting      == ~ble_initialized /\ hci_power = "ON"     \* power-on requested, not ready
Active        == ble_initialized
Stopped       == ~ble_initialized /\ hci_power = "OFF"    \* powered off by stop()

----------------------------------------------------------------------------
(* Claims *)

\* C1: update() called while the controller is not Active (Uninitialized,
\* Starting or Stopped) returns an error, leaves reading_id and the lifecycle
\* state unchanged and makes no radio call; the advertisement installed in
\* the radio is untouched.
C1_UpdateNotActiveRejected ==
    [][ (lastOp' = "update" /\ ~Active) =>
            /\ lastRet' = -1
            /\ reading_id' = reading_id
            /\ Uninitialized' = Uninitialized
            /\ Starting' = Starting
            /\ Stopped' = Stopped
            /\ ~Active'
            /\ lastCalls' = <<>>
            /\ gap_adv_data' = gap_adv_data ]_vars

\* a rejected update() with a valid reading, in Stopped, after two accepted updates
C1_Witness ==
    /\ lastOp = "update"
    /\ ~lastArg.isnull
    /\ lastRet = -1
    /\ Stopped
    /\ reading_id = U32(0, 2)

\* b is a + 1 modulo 2^32
U32Succ(a, b) ==
    \/ a.lo < WORD_MOD - 1 /\ b.hi = a.hi /\ b.lo = a.lo + 1
    \/ a.lo = WORD_MOD - 1 /\ a.hi < WORD_MOD - 1 /\ b.hi = a.hi + 1 /\ b.lo = 0
    \/ a = U32_MAX /\ b = U32_ZERO

\* C2: every update() that returns success leaves reading_id one above its
\* value before the call, modulo 2^32 (0xFFFFFFFF goes to 0).
C2_UpdateIncrementsByOne ==
    [][ (lastOp' = "update" /\ lastRet' = 0) =>
            /\ reading_id' \in U32Values
            /\ U32Succ(reading_id, reading_id') ]_vars

\* a successful update() that wrapped reading_id from 0xFFFFFFFF to 0
C2_Witness ==
    /\ lastOp = "update"
    /\ lastRet = 0
    /\ reading_id = U32_ZERO

\* C3: start() while Starting or Active is a no-op: reading_id, device_id and
\* the lifecycle state are unchanged, the handler is not registered again and
\* no power-on is requested.
C3_StartNoOpWhenStarted ==
    [][ (lastOp' = "init" /\ (Starting \/ Active)) =>
            /\ reading_id' = reading_id
            /\ device_id' = device_id
            /\ Starting' = Starting
            /\ Active' = Active
            /\ lastCalls' = <<>> ]_vars

\* C4: stop() while Starting or Active leaves the controller Stopped, with
\* broadcasting disabled, the radio powered off and is_ready() false.
C4_StopFromStartingOrActive ==
    [][ (lastOp' = "deinit" /\ (Starting \/ Active)) =>
            /\ Stopped'
            /\ ~gap_adv_enabled'
            /\ hci_state' = "OFF"
            /\ ~is_ready' ]_vars

\* C5: is_ready() is true exactly when the most recent start() that ran has
\* been followed by the radio-ready event and no stop() was called since.
C5_ReadyIffStartedReadyNotStopped ==
    is_ready <=> (ready_since_start /\ ~stop_since_start)

\* C6: stop() in Uninitialized or Stopped makes no radio call, changes
\* nothing of the controller or the radio and reports no error; a stop()
\* right after a stop() changes nothing either.
C6_StopNoOpWhenNotStarted ==
    [][ /\ (lastOp' = "deinit" /\ (Uninitialized \/ Stopped)) =>
               /\ lastCalls' = <<>>
               /\ lastRet' = 0
               /\ UNCHANGED <<ctrl_vars, radio_vars>>
        /\ (lastOp' = "deinit" /\ lastOp = "deinit") =>
               /\ lastCalls' = <<>>
               /\ UNCHANGED <<ctrl_vars, radio_vars>> ]_vars

\* a stop() that did nothing, in Stopped, with the advertisement of the
\* stopped run still in the buffer
C6_Witness ==
    /\ lastOp = "deinit"
    /\ lastCalls = <<>>
    /\ Stopped
    /\ adv_cursor > 0

\* C7: start() never makes the controller Active: it leaves is_ready() as it
\* was, update() fails while is_ready() is false, and is_ready() goes from
\* false to true only in the handler of the HCI_STATE_WORKING event, from
\* Starting.
C7_ActiveOnlyByRadioReady ==
    [][ /\ lastOp' = "init" => (is_ready' = is_ready)
        /\ (lastOp' = "init" /\ ~Active) => (Starting' /\ ~is_ready')
        /\ (lastOp' = "update" /\ ~is_ready) => lastRet' = -1
        /\ (~is_ready /\ is_ready') =>
               /\ Starting
               /\ lastOp' = "packet_handler"
               /\ lastArg' = WorkingEvent
               /\ hci_state = "INITIALIZING" /\ hci_state' = "WORKING" ]_vars

\* update() with a valid reading failing after start(), the radio still initialising
C7_Witness ==
    /\ lastOp = "update"
    /\ ~lastArg.isnull
    /\ lastRet = -1
    /\ Starting
    /\ hci_state = "INITIALIZING"

\* the state holds an advertisement built by the operation that ran last
BuiltByLastOp ==
    \/ lastOp = "update" /\ lastRet = 0
    \/ lastOp = "packet_handler" /\ lastArg = WorkingEvent

\* C8 as claimed: the wrapped structure has length exactly 30.
C8_LengthIs30 ==
    BuiltByLastOp => (adv_data_len = 30 /\ Len(gap_adv_data) = 30)

\* C8, amended: the wrapped structure built by the encoder has length exactly
\* 29 (3-byte flags element + 26-byte manufacturer element) for every input,
\* hence never more than 31; the clamp is never taken and the last two bytes
\* of the 31-byte buffer are never written.
C8_LengthIs29 ==
    /\ adv_cursor \in {0, 29}
    /\ adv_data_len = adv_cursor
    /\ adv_data_len <= 31
    /\ ~adv_error
    /\ adv_data[30] = 0 /\ adv_data[31] = 0
    /\ Len(gap_adv_data) = adv_data_len
    /\ BuiltByLastOp => adv_data_len = 29

\* an advertisement built from reading_id 0xFFFFFFFF, NaN, +Inf and -Inf
C8_Witness ==
    /\ lastOp = "update"
    /\ lastRet = 0
    /\ lastArg.temperature = Float(0, 255, 4194304)
    /\ lastArg.pressure = Float(0, 255, 0)
    /\ lastArg.humidity = Float(1, 255, 0)
    /\ reading_id = U32_MAX
    /\ adv_data_len = 29

\* The inverse of the payload layout: 4 little-endian bytes at 1-based offset
\* off of m as a uint32, and a uint32 as the float it is the bit pattern of.
decode_u32_le(m, off) ==
    U32(m[off + 3] * 256 + m[off + 2], m[off + 1] * 256 + m[off])
decode_float(u) ==
    Float(u.hi \div 32768, (u.hi \div 128) % 256, (u.hi % 128) * 65536 + u.lo)

\* the manufacturer payload of an advertisement: what follows the flags
\* element (3), the length and type bytes (2) and the company id (2)
mfg_payload(adv) == SubSeq(adv, 8, Len(adv))

\* the reading the last operation encoded
LastReading ==
    IF lastOp = "update"
    THEN [temperature |-> lastArg.temperature, pressure |-> lastArg.pressure,
          humidity |-> lastArg.humidity]
    ELSE [temperature |-> F_ZERO, pressure |-> F_ZERO, humidity |-> F_ZERO]

\* C9: the manufacturer payload is 22 bytes: magic 0x01 0xD0, then device_id,
\* reading_id, temperature, pressure, humidity as 4 little-endian bytes each;
\* decoding it gives back the device_id, the reading_id and the three floats
\* that were encoded.
C9_PayloadRoundTrip ==
    BuiltByLastOp =>
        LET m == mfg_payload(gap_adv_data)
        IN  /\ Len(m) = 22
            /\ \A i \in 1..22 : m[i] \in 0..255
            /\ m[1] = 1 /\ m[2] = 208
            /\ decode_u32_le(m, 3) = device_id
            /\ decode_u32_le(m, 7) = reading_id
            /\ decode_float(decode_u32_le(m, 11)) = LastReading.temperature
            /\ decode_float(decode_u32_le(m, 15)) = LastReading.pressure
            /\ decode_float(decode_u32_le(m, 19)) = LastReading.humidity

\* a payload of device 0xDEADBEEF with a subnormal, a negative number and a
\* negative NaN, and reading_id 0x0506FFFF
C9_Witness ==
    /\ lastOp = "update"
    /\ lastRet = 0
    /\ device_id = U32(57005, 48879)
    /\ reading_id = U32(1286, WORD_MOD - 1)
    /\ lastArg.temperature = Float(0, 0, 1)
    /\ lastArg.humidity = Float(1, 255, 8388607)

\* C10: every payload handed to the radio carries the flags element
\* 02 01 06, the manufacturer header 19 FF with company id FF FF, the magic
\* 01 D0 and the device_id given to the start() that ran last; a payload
\* replacing another one while Active differs from it only in the reading_id
\* and measurement bytes; the first payload carries reading_id 0 and each
\* update's payload the incremented reading_id (1, 2, ...).
C10_PayloadFixedFields ==
    [][ /\ (device_id' # device_id) =>
               (lastOp' = "init" /\ device_id' = lastArg'.dev_id)
        /\ BuiltByLastOp' =>
               /\ SubSeq(gap_adv_data', 1, 9) = <<2, 1, 6, 25, 255, 255, 255, 1, 208>>
               /\ decode_u32_le(mfg_payload(gap_adv_data'), 3) = device_id'
               /\ decode_u32_le(mfg_payload(gap_adv_data'), 7) = reading_id'
               /\ lastOp' = "packet_handler" => reading_id' = U32_ZERO
               /\ lastOp' = "update" => U32Succ(reading_id, reading_id')
               /\ Active => \A i \in 1..13 : gap_adv_data'[i] = gap_adv_data[i] ]_vars

\* start(0xDEADBEEF), radio-ready, update(21.50, 101.30, 45.00),
\* update(21.55, 101.28, 45.10): the second update's payload carries reading_id 2
C10_Witness ==
    /\ lastOp = "update"
    /\ lastRet = 0
    /\ device_id = U32(57005, 48879)
    /\ reading_id = U32(0, 2)
    /\ lastArg.temperature = Float(0, 131, 2909798)
    /\ decode_u32_le(mfg_payload(gap_adv_data), 7) = U32(0, 2)
    /\ decode_u32_le(mfg_payload(gap_adv_data), 3) = U32(57005, 48879)

\* C11: the HCI_STATE_WORKING event in Starting makes the calls
\* gap_advertisements_set_params, gap_advertisements_set_data,
\* gap_advertisements_enable(1) in this order and ends Active; the payload
\* installed carries the current reading_id, which is 0 and is not
\* incremented, and the reading 0.0f, 0.0f, 0.0f.
C11_RadioReadyTransition ==
    [][ (lastOp' = "packet_handler" /\ lastArg' = WorkingEvent /\ Starting) =>
            /\ lastCalls' = <<"gap_local_bd_addr", "gap_advertisements_set_params",
                              "gap_advertisements_set_data",
                              "gap_advertisements_enable(1)">>
            /\ gap_params_set' /\ gap_adv_enabled' /\ Active'
            /\ reading_id = U32_ZERO
            /\ reading_id' = reading_id
            /\ LET m == mfg_payload(gap_adv_data')
               IN  /\ Len(m) = 22
                   /\ decode_u32_le(m, 3) = device_id
                   /\ decode_u32_le(m, 7) = reading_id
                   /\ decode_float(decode_u32_le(m, 11)) = F_ZERO
                   /\ decode_float(decode_u32_le(m, 15)) = F_ZERO
                   /\ decode_float(decode_u32_le(m, 19)) = F_ZERO ]_vars

\* the controller just made Active by the event, the first payload of
\* device 0xDEADBEEF installed and broadcasting enabled
C11_Witness ==
    /\ lastOp = "packet_handler"
    /\ lastArg = WorkingEvent
    /\ Active
    /\ gap_adv_enabled
    /\ device_id = U32(57005, 48879)
    /\ decode_u32_le(mfg_payload(gap_adv_data), 7) = U32_ZERO

\* C12: start(d) in Uninitialized records device_id = d, sets reading_id to
\* 0, registers the handler and requests power-on, and leaves the controller
\* Starting; it builds and installs no payload, sets no advertising
\* parameters and does not enable broadcasting.
C12_StartFromUninitialized ==
    [][ (lastOp' = "init" /\ Uninitialized) =>
            /\ device_id' = lastArg'.dev_id
            /\ reading_id' = U32_ZERO
            /\ handler_registered'
            /\ hci_power' = "ON"
            /\ hci_state' \in {"OFF", "INITIALIZING"}
            /\ Starting'
            /\ lastCalls' = <<"cyw43_arch_init", "l2cap_init", "sm_init",
                              "hci_add_event_handler", "hci_power_control(HCI_POWER_ON)">>
            /\ UNCHANGED <<adv_data, adv_data_len, adv_cursor, adv_error>>
            /\ gap_adv_data' = <<>>
            /\ ~gap_params_set'
            /\ ~gap_adv_enabled' ]_vars

\* the first start(0xDEADBEEF), the radio initialising, nothing built
C12_Witness ==
    /\ lastOp = "init"
    /\ Starting
    /\ hci_state = "INITIALIZING"
    /\ device_id = U32(57005, 48879)
    /\ adv_cursor = 0
    /\ gap_adv_data = <<>>

\* a step of the loop that ran the sensor tick
TickStep == pc = "check" /\ timer_due /\ pc' # "check"

\* C13: on a sensor tick ble_advertise_update is called exactly when the
\* sensor read succeeded and is_ready() is true at that moment; on a sensor
\* failure or when not ready no update is called and reading_id, the buffer
\* and the installed payload are unchanged.
C13_TickUpdatesOnlyWhenReady ==
    [][ TickStep =>
            /\ (\E i \in 1..Len(tick_calls') : tick_calls'[i] = "ble_advertise_update")
                   <=> (tick_sensor_ok' /\ is_ready)
            /\ (tick_sensor_ok' /\ is_ready) => (lastOp' = "update" /\ lastRet' = 0)
            /\ ~(tick_sensor_ok' /\ is_ready) =>
                   /\ lastOp' # "update"
                   /\ UNCHANGED <<reading_id, adv_data, adv_data_len, gap_adv_data>> ]_vars

\* a tick with a good sensor read skipped while the radio is still initialising
C13_Witness ==
    /\ pc = "poll"
    /\ tick_sensor_ok
    /\ tick_calls = <<"ble_advertise_is_ready">>
    /\ lastOp = "is_ready"
    /\ lastRet = 0
    /\ Starting
    /\ hci_state = "INITIALIZING"

\* C14: the sensor tick runs again and again, and every tick, whatever the
\* sensor read and the update gave, ends with the loop back at its poll,
\* never halted.
C14_TickAlwaysFollowedByTick ==
    /\ []<>(pc = "check" /\ timer_due)
    /\ [](pc = "check" /\ timer_due => <>(pc = "poll"))
    /\ [](pc # "halted")

\* back in the loop after a tick whose sensor read failed while Active
C14_Witness ==
    /\ pc = "poll"
    /\ handled_since_wait = 1
    /\ ~tick_sensor_ok
    /\ tick_calls = <<>>
    /\ lastOp = "none"
    /\ Active
    /\ reading_id = U32(0, 1)

\* the buffer and the radio hold the advertisement of the current reading_id
PayloadInStep ==
    gap_adv_data # <<>> =>
        /\ gap_adv_data = adv_payload(adv_data, adv_data_len)
        /\ decode_u32_le(mfg_payload(gap_adv_data), 7) = reading_id

\* packet_handler runs only from the poll of the loop, never between the
\* wake-up and the end of a sensor tick, and finds reading_id and the buffer
\* in step
HandlerRunsInPoll ==
    (lastOp' = "packet_handler" /\ handled_since_wait' = handled_since_wait + 1)
        => (pc = "poll" /\ pc' = "poll" /\ PayloadInStep)

C15_TransportErrorReported ==
    /\ (lastOp = "init" /\ lastCalls # <<>> /\ hci_state = "OFF") => lastRet < 0
    /\ (lastOp = "update" /\ lastRet = 0) =>
           gap_adv_data = adv_payload(adv_data, adv_data_len)

\* C16: in every Active state the payload installed in the radio is the
\* encoding of device_id, reading_id and the reading of the latest successful
\* update() since the controller became Active (0.0f, 0.0f, 0.0f if none);
\* the radio holds that one payload, which is the buffer's content.
C16_LatestCallWins ==
    Active =>
        /\ Len(gap_adv_data) = 29
        /\ gap_adv_data = SubSeq(adv_data, 1, adv_data_len)
        /\ SubSeq(gap_adv_data, 1, 9) = <<2, 1, 6, 25, 255, 255, 255, 1, 208>>
        /\ LET m == mfg_payload(gap_adv_data)
           IN  /\ decode_u32_le(m, 3) = device_id
               /\ decode_u32_le(m, 7) = reading_id
               /\ decode_float(decode_u32_le(m, 11)) = latest_reading.temperature
               /\ decode_float(decode_u32_le(m, 15)) = latest_reading.pressure
               /\ decode_float(decode_u32_le(m, 19)) = latest_reading.humidity

\* update(21.50, ...) then update(21.55, 101.28, 45.10) then a rejected
\* update(NULL): the radio holds the payload of the second update
C16_Witness ==
    /\ Active
    /\ lastOp = "update"
    /\ lastArg = NULL
    /\ reading_id = U32(0, 2)
    /\ latest_reading.temperature = Float(0, 131, 2909798)
    /\ decode_float(decode_u32_le(mfg_payload(gap_adv_data), 11)) = Float(0, 131, 2909798)

\* C17: update(NULL) in Active returns an error, does not increment
\* reading_id, does not rebuild the buffer and calls no radio function; the
\* installed payload stays.
C17_NullUpdateRejected ==
    [][ (lastOp' = "update" /\ lastArg' = NULL /\ Active) =>
            /\ lastRet' < 0
            /\ lastCalls' = <<>>
            /\ UNCHANGED <<reading_id, adv_data, adv_data_len, gap_adv_data,
                           gap_adv_enabled, ble_initialized, device_id>> ]_vars

\* update(NULL) rejected with a payload of reading_id 1 in effect
C17_Witness ==
    /\ lastOp = "update"
    /\ lastArg = NULL
    /\ lastRet = -1
    /\ Active
    /\ reading_id = U32(0, 1)
    /\ Len(gap_adv_data) = 29
    /\ decode_u32_le(mfg_payload(gap_adv_data), 7) = U32(0, 1)

\* previous contents of the 31-byte static buffer
PreviousBuffers == { [i \in 1..ADV_DATA_SIZE |-> 0], [i \in 1..ADV_DATA_SIZE |-> 255],
                     [i \in 1..ADV_DATA_SIZE |-> i] }

\* C18: the bytes and the length the encoder emits depend only on device_id,
\* reading_id and the reading: whatever the buffer held before, each build of
\* an execution emits what a build of the same inputs over any other buffer
\* emits.
C18_EncoderHistoryIndependent ==
    [][ (BuiltByLastOp' /\ (lastOp' # lastOp \/ reading_id' # reading_id)) =>
            \A buf \in PreviousBuffers \cup {adv_data} :
                LET b == build_adv_data(buf, device_id', reading_id',
                                        LastReading'.temperature, LastReading'.pressure,
                                        LastReading'.humidity)
                IN  /\ adv_payload(b.data, b.len) = gap_adv_data'
                    /\ b.len = adv_data_len'
                    /\ ~b.error ]_vars

\* a build over a buffer that held another reading's bytes: the update of
\* NaN/+Inf/-Inf as reading 2 of device 0x01020304
C18_Witness ==
    /\ lastOp = "update"
    /\ lastRet = 0
    /\ device_id = U32(258, 772)
    /\ reading_id = U32(0, 2)
    /\ lastArg.temperature = Float(0, 255, 4194304)
    /\ adv_data_len = 29

\* a step that hands a payload to gap_advertisements_set_data
InstallStep ==
    /\ \E i \in 1..Len(lastCalls') : lastCalls'[i] = "gap_advertisements_set_data"
    /\ lastOp' # lastOp \/ reading_id' # reading_id \/ gap_adv_data' # gap_adv_data

\* C20: between an accepted start() and the next stop() no two payload
\* installations carry the same reading_id: the first carries 0, each
\* successful update the next number, also when a further HCI_STATE_WORKING
\* event is delivered while Active.
C20_NoDuplicateReadingId ==
    [][ InstallStep =>
            LET rid == decode_u32_le(mfg_payload(gap_adv_data'), 7)
            IN  /\ rid \notin installed_ids
                /\ installed_ids = {} => rid = U32_ZERO
                /\ installed_ids # {} => U32Succ(reading_id, rid) ]_vars

\* C21: reading_id is the number of updates that returned 0 since the last
\* start() that ran, modulo 2^32; it is written only by a start() that ran
\* and by an update() that returned 0: the handler, stop(), is_ready() and a
\* rejected update() leave it as it is.
C21_ReadingIdCountsUpdates ==
    /\ [](u32_distance(reading_id, count_base) = U32(0, updates_since_start))
    /\ [][ (reading_id' # reading_id) =>
               \/ lastOp' = "init" /\ lastCalls' # <<>> /\ reading_id' = U32_ZERO
               \/ lastOp' = "update" /\ lastRet' = 0 /\ U32Succ(reading_id, reading_id') ]_vars
    /\ [][ (lastOp' \in {"packet_handler", "deinit", "is_ready"}
             \/ (lastOp' = "update" /\ lastRet' < 0)) =>
               UNCHANGED <<reading_id, updates_since_start>> ]_vars

\* two updates from 0xFFFFFFFE: the counter wrapped to 0 with two updates counted
C21_Witness ==
    /\ lastOp = "update"
    /\ lastRet = 0
    /\ reading_id = U32_ZERO
    /\ count_base = U32(WORD_MOD - 1, WORD_MOD - 2)
    /\ updates_since_start = 2

\* position of a radio call in the calls of the last operation, 0 if absent
CallIndex(calls, name) ==
    IF \E i \in 1..Len(calls) : calls[i] = name
    THEN CHOOSE i \in 1..Len(calls) : calls[i] = name
    ELSE 0

\* broadcasting enabled implies a payload of n bytes installed since the last
\* power-on request, enabling comes after the set-payload call, and
\* is_ready() implies broadcasting enabled on a radio powered on and not
\* powered off since
EnabledAfterInstall(n) ==
    /\ gap_adv_enabled =>
           /\ installed_ids # {}
           /\ Len(gap_adv_data) = n
           /\ gap_adv_data = SubSeq(adv_data, 1, adv_data_len)
    /\ (CallIndex(lastCalls, "gap_advertisements_enable(1)") > 0) =>
           /\ CallIndex(lastCalls, "gap_advertisements_set_data") > 0
           /\ CallIndex(lastCalls, "gap_advertisements_set_data")
                  < CallIndex(lastCalls, "gap_advertisements_enable(1)")
    /\ is_ready =>
           /\ gap_adv_enabled
           /\ hci_power = "ON"
           /\ hci_state = "WORKING"

\* C22 as claimed: the installed payload has 30 bytes.
C22_EnabledImpliesInstalled30 == EnabledAfterInstall(30)

\* C22, with the length the encoder gives: if broadcasting is enabled then a
\* 29-byte payload has been installed since the last power-on request, and
\* if is_ready() is true then broadcasting is enabled and the radio has been
\* powered on and not powered off since.
C22_EnabledImpliesInstalled == EnabledAfterInstall(29)

\* broadcasting just enabled by the handler, the first payload installed
C22_Witness ==
    /\ lastOp = "packet_handler"
    /\ lastArg = WorkingEvent
    /\ gap_adv_enabled
    /\ is_ready
    /\ installed_ids = {U32_ZERO}
    /\ hci_power = "ON"
    /\ Len(gap_adv_data) = 29

\* C23: a start(d) in Stopped (after a stop() that took the controller out
\* of Active) runs as a fresh start: it is not rejected, records device_id = d,
\* sets reading_id to 0 and requests power-on again; is_ready() stays false
\* until the HCI_STATE_WORKING event is handled, and the first update after
\* it carries reading_id 1.
C23_RestartAfterStop ==
    /\ [][ (lastOp' = "init" /\ Stopped) =>
               /\ CallIndex(lastCalls', "hci_power_control(HCI_POWER_ON)") > 0
               /\ lastRet' = 0
               /\ device_id' = lastArg'.dev_id
               /\ reading_id' = U32_ZERO
               /\ hci_power' = "ON"
               /\ restarted'
               /\ ~is_ready' ]_vars
    /\ [][ (restarted /\ ~is_ready /\ is_ready') =>
               /\ lastOp' = "packet_handler"
               /\ lastArg' = WorkingEvent
               /\ reading_id' = U32_ZERO ]_vars
    /\ [][ (restarted /\ lastOp' = "update" /\ lastRet' = 0 /\ updates_since_start = 0) =>
               /\ reading_id' = U32(0, 1)
               /\ decode_u32_le(mfg_payload(gap_adv_data'), 7) = U32(0, 1)
               /\ decode_u32_le(mfg_payload(gap_adv_data'), 3) = device_id ]_vars
    /\ [](restarted /\ is_ready => ready_since_start)

\* start(0x01020304), ready, updates, stop(), start(0xDEADBEEF), ready, and
\* the first update of the second run: reading_id 1 of device 0xDEADBEEF
C23_Witness ==
    /\ restarted
    /\ Active
    /\ lastOp = "update"
    /\ lastRet = 0
    /\ device_id = U32(57005, 48879)
    /\ reading_id = U32(0, 1)
    /\ updates_since_start = 1
    /\ installed_ids = {U32_ZERO, U32(0, 1)}

====
